---- MODULE Spec2Model ----
(***************************************************************************)
(* Tucker tensors (tensorly/tucker_tensor.py): validation of a             *)
(* (core, factors) pair and its conversion to a full tensor, to a          *)
(* mode-unfolding and to a vector.                                         *)
(*                                                                         *)
(* A tensor is a record [shape, data]: shape is the tuple of extents,      *)
(* data the entries in row-major order (last mode varying fastest).        *)
(* Modes and indices are 0-based as in the source; a TLA+ sequence is      *)
(* 1-based, so mode m is position m + 1 of a shape.                        *)
(* A raised exception is a record with an "error" field.                   *)
(***************************************************************************)
EXTENDS Integers, Sequences, FiniteSets

VARIABLES core, factors, call, result

vars == <<core, factors, call, result>>

\* Bounds of the inputs: the number of modes of the core, and the number of
\* entries of the core and the factors together.
MaxModes == 3
MaxCells == 7

\* skip_factor=None: no factor is skipped.
None == -1

----------------------------------------------------------------------------
\* Arithmetic on tuples.

RECURSIVE Prod(_)
Prod(s) == IF s = <<>> THEN 1 ELSE Head(s) * Prod(Tail(s))

RECURSIVE Sum(_)
Sum(s) == IF s = <<>> THEN 0 ELSE Head(s) + Sum(Tail(s))

\* s without position p (1-based).
Remove(s, p) == SubSeq(s, 1, p - 1) \o SubSeq(s, p + 1, Len(s))

\* s with x inserted so that it sits at position p (1-based).
Insert(s, p, x) == SubSeq(s, 1, p - 1) \o <<x>> \o SubSeq(s, p, Len(s))

\* Row-major flat offset (0-based) of the multi-index idx in an array of shape shp.
RECURSIVE Ravel(_, _)
Ravel(idx, shp) ==
    IF idx = <<>> THEN 0
    ELSE Head(idx) * Prod(Tail(shp)) + Ravel(Tail(idx), Tail(shp))

\* The multi-index of the row-major flat offset k (0-based).
Unravel(k, shp) ==
    [i \in 1..Len(shp) |-> (k \div Prod(SubSeq(shp, i + 1, Len(shp)))) % shp[i]]

----------------------------------------------------------------------------
\* The array backend (tl.ndim, tl.shape, tl.transpose, tl.dot, indexing).

ndim(t) == Len(t.shape)

shape(t) == t.shape

size(t) == Prod(t.shape)

At(t, idx) == t.data[Ravel(idx, t.shape) + 1]

IsError(r) == "error" \in DOMAIN r

MkTensor(shp, f(_)) ==
    [shape |-> shp, data |-> [k \in 1..Prod(shp) |-> f(Unravel(k - 1, shp))]]

transpose(m) ==
    MkTensor(<<m.shape[2], m.shape[1]>>, LAMBDA idx : At(m, <<idx[2], idx[1]>>))

\* Matrix product of a (p, q) and b (q, n).
dot(a, b) ==
    MkTensor(<<a.shape[1], b.shape[2]>>,
             LAMBDA idx : Sum([r \in 1..a.shape[2] |->
                                 At(a, <<idx[1], r - 1>>) * At(b, <<r - 1, idx[2]>>)]))

\* Matrix-vector product of a (p, q) and v (q).
matvec(a, v) ==
    MkTensor(<<a.shape[1]>>,
             LAMBDA idx : Sum([r \in 1..a.shape[2] |->
                                 At(a, <<idx[1], r - 1>>) * At(v, <<r - 1>>)]))

----------------------------------------------------------------------------
\* Collaborators of tucker_tensor.py: base.unfold, base.fold,
\* base.tensor_to_vec, tenalg.kronecker, tenalg.mode_dot, tenalg.multi_mode_dot.

\* Mode-`mode` unfolding: rows enumerate the coordinate of `mode`, columns the
\* remaining coordinates in the tensor's mode order, last varying fastest.
unfold(tensor, mode) ==
    LET rest == Remove(tensor.shape, mode + 1)
    IN  MkTensor(<<tensor.shape[mode + 1], Prod(rest)>>,
                 LAMBDA idx : At(tensor, Insert(Unravel(idx[2], rest), mode + 1, idx[1])))

\* Refolds a mode-`mode` unfolding into a tensor of shape shp.
fold(unfolded, mode, shp) ==
    MkTensor(shp,
             LAMBDA idx : At(unfolded, <<idx[mode + 1],
                                         Ravel(Remove(idx, mode + 1), Remove(shp, mode + 1))>>))

\* Flattens in row-major order.
tensor_to_vec(tensor) == [shape |-> <<size(tensor)>>, data |-> tensor.data]

\* Kronecker product of two matrices.
kron(a, b) ==
    MkTensor(<<a.shape[1] * b.shape[1], a.shape[2] * b.shape[2]>>,
             LAMBDA idx : At(a, <<idx[1] \div b.shape[1], idx[2] \div b.shape[2]>>)
                          * At(b, <<idx[1] % b.shape[1], idx[2] % b.shape[2]>>))

\* Kronecker product of a non-empty list of matrices, in list order.
RECURSIVE kronecker(_)
kronecker(matrices) ==
    IF Len(matrices) = 1 THEN matrices[1]
    ELSE kron(kronecker(SubSeq(matrices, 1, Len(matrices) - 1)), matrices[Len(matrices)])

\* n-mode product of a tensor by a matrix: the matrix multiplies the
\* mode-`mode` unfolding, which is folded back with the new extent.
\* Reading the extent of a mode the tensor does not have is an IndexError.
mode_dot(tensor, matrix, mode) ==
    IF mode >= ndim(tensor)
    THEN [error |-> "IndexError", check |-> "no such mode", mode |-> mode]
    ELSE IF matrix.shape[2] # tensor.shape[mode + 1]
    THEN [error |-> "ValueError", check |-> "not aligned", mode |-> mode,
          matrix_dim |-> matrix.shape[2], tensor_dim |-> tensor.shape[mode + 1]]
    ELSE fold(dot(matrix, unfold(tensor, mode)), mode,
              [tensor.shape EXCEPT ![mode + 1] = matrix.shape[1]])

\* The loop of multi_mode_dot from factor i on (0-based), in ascending mode order.
RECURSIVE multi_mode_dot_from(_, _, _, _, _)
multi_mode_dot_from(res, matrices, i, skip, transp) ==
    IF i >= Len(matrices) THEN res
    ELSE IF skip # None /\ i = skip
         THEN multi_mode_dot_from(res, matrices, i + 1, skip, transp)
         ELSE LET m == IF transp THEN transpose(matrices[i + 1]) ELSE matrices[i + 1]
                  r == mode_dot(res, m, i)
              IN  IF IsError(r) THEN r
                  ELSE multi_mode_dot_from(r, matrices, i + 1, skip, transp)

\* Contracts the tensor with the i-th matrix along mode i, for every matrix
\* of the list except the skipped one.
multi_mode_dot(tensor, matrices, skip, transp) ==
    multi_mode_dot_from(tensor, matrices, 0, skip, transp)

----------------------------------------------------------------------------
\* tucker_tensor.py

\* Mutant: the bound of the first check is off by one.
TooFewFactors_OffByOne(fs) == Len(fs) < 1

\* First check of _validate_tucker_tensor.
TooFewFactors(fs) == Len(fs) < 2

\* Mutant: only too many factors are rejected.
WrongFactorCount_TooManyOnly(c, fs) == Len(fs) > ndim(c)

\* Second check of _validate_tucker_tensor.
WrongFactorCount(c, fs) == Len(fs) # ndim(c)

\* Mutant: the factor's first dimension is compared with the core's extent.
RankMismatch_WrongAxis(c, factor, i) == shape(factor)[1] # shape(c)[i + 1]

\* Mutant: every factor is compared with the core's first extent.
RankMismatch_FirstModeOnly(c, factor, i) == shape(factor)[2] # shape(c)[1]

\* The per-factor check of the loop: current_rank != tl.shape(core)[i].
RankMismatch(c, factor, i) == shape(factor)[2] # shape(c)[i + 1]

\* The loop of _validate_tucker_tensor from factor i on (0-based), with the
\* lists built so far; `reads` lists the factors whose shape has been read.
RECURSIVE validate_loop(_, _, _, _, _, _)
validate_loop(c, fs, i, shp, rnk, reads) ==
    IF i >= Len(fs)
    THEN [shape |-> shp, rank |-> rnk, reads |-> reads]
    ELSE LET factor == fs[i + 1]
             current_shape == shape(factor)[1]
             current_rank == shape(factor)[2]
         IN  IF RankMismatch(c, factor, i)
             THEN [error |-> "ValueError", check |-> "rank", mode |-> i,
                   factor_dim |-> shape(factor)[2], core_dim |-> shape(c)[i + 1],
                   reads |-> Append(reads, i)]
             ELSE validate_loop(c, fs, i + 1, Append(shp, current_shape),
                                Append(rnk, current_rank), Append(reads, i))

\* Mutant: the factor count is checked before the minimum number of factors.
validate_tucker_tensor_CountFirst(tucker_tensor) ==
    LET c == tucker_tensor[1]
        fs == tucker_tensor[2]
    IN  IF WrongFactorCount(c, fs)
        THEN [error |-> "ValueError", check |-> "factor count",
              n_modes |-> ndim(c), n_factors |-> Len(fs), reads |-> <<>>]
        ELSE IF TooFewFactors(fs)
        THEN [error |-> "ValueError", check |-> "too few factors",
              n_factors |-> Len(fs), reads |-> <<>>]
        ELSE validate_loop(c, fs, 0, <<>>, <<>>, <<>>)

validate_tucker_tensor(tucker_tensor) ==
    LET c == tucker_tensor[1]
        fs == tucker_tensor[2]
    IN  IF TooFewFactors(fs)
        THEN [error |-> "ValueError", check |-> "too few factors",
              n_factors |-> Len(fs), reads |-> <<>>]
        ELSE IF WrongFactorCount(c, fs)
        THEN [error |-> "ValueError", check |-> "factor count",
              n_modes |-> ndim(c), n_factors |-> Len(fs), reads |-> <<>>]
        ELSE validate_loop(c, fs, 0, <<>>, <<>>, <<>>)

\* Mutant: the transpose flag is forwarded negated.
tucker_to_tensor_FlippedTranspose(c, fs, skip_factor, transpose_factors) ==
    multi_mode_dot(c, fs, skip_factor, ~transpose_factors)

\* Mutant: transpose_factors is not forwarded.
tucker_to_tensor_DropsTranspose(c, fs, skip_factor, transpose_factors) ==
    multi_mode_dot(c, fs, skip_factor, FALSE)

\* Mutant: skip_factor is not forwarded.
tucker_to_tensor_DropsSkip(c, fs, skip_factor, transpose_factors) ==
    multi_mode_dot(c, fs, None, transpose_factors)

tucker_to_tensor(c, fs, skip_factor, transpose_factors) ==
    multi_mode_dot(c, fs, skip_factor, transpose_factors)

\* Mutant: skip_factor is not forwarded to tucker_to_tensor.
tucker_to_unfolded_DropsSkip(c, fs, mode, skip_factor, transpose_factors) ==
    LET t == tucker_to_tensor(c, fs, None, transpose_factors)
    IN  IF IsError(t) THEN t ELSE unfold(t, mode)

tucker_to_unfolded(c, fs, mode, skip_factor, transpose_factors) ==
    LET t == tucker_to_tensor(c, fs, skip_factor, transpose_factors)
    IN  IF IsError(t) THEN t ELSE unfold(t, mode)

\* Mutant: transpose_factors is not forwarded to tucker_to_tensor.
tucker_to_vec_DropsTranspose(c, fs, skip_factor, transpose_factors) ==
    LET t == tucker_to_tensor(c, fs, skip_factor, FALSE)
    IN  IF IsError(t) THEN t ELSE tensor_to_vec(t)

tucker_to_vec(c, fs, skip_factor, transpose_factors) ==
    LET t == tucker_to_tensor(c, fs, skip_factor, transpose_factors)
    IN  IF IsError(t) THEN t ELSE tensor_to_vec(t)

----------------------------------------------------------------------------
\* Inputs.

\* np.arange(start, start + Prod(shp)).reshape(shp)
arange(start, shp) == MkTensor(shp, LAMBDA idx : start + Ravel(idx, shp))

\* All shapes of n modes with at most `cells` entries.
RECURSIVE Shapes(_, _)
Shapes(n, cells) ==
    IF n = 0 THEN {<<>>}
    ELSE UNION {{<<d>> \o rest : rest \in Shapes(n - 1, cells \div d)} : d \in 1..cells}

\* All lists of n matrix shapes with at most `cells` entries in total.
RECURSIVE ShapeLists(_, _)
ShapeLists(n, cells) ==
    IF n = 0 THEN {<<>>}
    ELSE UNION {{<<f>> \o rest : rest \in ShapeLists(n - 1, cells - Prod(f))}
                : f \in Shapes(2, cells)}

\* The fixture of test_tucker_to_tensor: X of shape (3, 4, 2) and
\* U[i] = arange(R * s).reshape((R, s)) for ranks R = 2, 3, 4.
TestCore ==
    [shape |-> <<3, 4, 2>>,
     data |-> <<1, 13, 4, 16, 7, 19, 10, 22,
                2, 14, 5, 17, 8, 20, 11, 23,
                3, 15, 6, 18, 9, 21, 12, 24>>]

TestFactors == <<arange(0, <<2, 3>>), arange(0, <<3, 4>>), arange(0, <<4, 2>>)>>

\* true_res of test_tucker_to_tensor, of shape (2, 3, 4).
TestTrueRes ==
    [shape |-> <<2, 3, 4>>,
     data |-> <<390, 1518, 2646, 3774, 1310, 4966, 8622, 12278,
                2230, 8414, 14598, 20782, 1524, 5892, 10260, 14628,
                5108, 19204, 33300, 47396, 8692, 32516, 56340, 80164>>]

\* U of the tests: one np.arange(R * s).reshape((R, s)) per shape.
InputFactors(shapes) == [i \in 1..Len(shapes) |-> arange(0, shapes[i])]

Init ==
    /\ \/ \E nd \in 1..MaxModes, nf \in 0..(MaxModes + 1) :
            \E cs \in Shapes(nd, MaxCells) :
              \E fss \in ShapeLists(nf, MaxCells - Prod(cs)) :
                /\ core = arange(1, cs)
                /\ factors = InputFactors(fss)
       \/ /\ core = TestCore
          /\ factors = TestFactors
    /\ call = [op |-> "none"]
    /\ result = [none |-> TRUE]

Validate ==
    /\ call.op = "none"
    /\ call' = [op |-> "validate_tucker_tensor"]
    /\ result' = validate_tucker_tensor(<<core, factors>>)
    /\ UNCHANGED <<core, factors>>

\* skip_factor: None or the index of a factor or of a mode of the core.
SkipArgs ==
    {None} \cup (0..((IF Len(factors) > ndim(core) THEN Len(factors) ELSE ndim(core)) - 1))

TuckerToTensor ==
    /\ call.op = "none"
    /\ \E skip \in SkipArgs, transp \in BOOLEAN :
         /\ call' = [op |-> "tucker_to_tensor", skip_factor |-> skip,
                     transpose_factors |-> transp]
         /\ result' = tucker_to_tensor(core, factors, skip, transp)
    /\ UNCHANGED <<core, factors>>

TuckerToUnfolded ==
    /\ call.op = "none"
    /\ \E mode \in 0..(ndim(core) - 1), skip \in SkipArgs, transp \in BOOLEAN :
         /\ call' = [op |-> "tucker_to_unfolded", mode |-> mode, skip_factor |-> skip,
                     transpose_factors |-> transp]
         /\ result' = tucker_to_unfolded(core, factors, mode, skip, transp)
    /\ UNCHANGED <<core, factors>>

TuckerToVec ==
    /\ call.op = "none"
    /\ \E skip \in SkipArgs, transp \in BOOLEAN :
         /\ call' = [op |-> "tucker_to_vec", skip_factor |-> skip,
                     transpose_factors |-> transp]
         /\ result' = tucker_to_vec(core, factors, skip, transp)
    /\ UNCHANGED <<core, factors>>

Next == Validate \/ TuckerToTensor \/ TuckerToUnfolded \/ TuckerToVec

Spec == Init /\ [][Next]_vars

----------------------------------------------------------------------------
\* Vocabulary of the properties.

Validated == call.op = "validate_tucker_tensor"

Converted == call.op \in {"tucker_to_tensor", "tucker_to_unfolded", "tucker_to_vec"}

FactorModes == 0..(Len(factors) - 1)

\* factors[i].shape[1] == core.shape[i]
RankAgrees(i) == factors[i + 1].shape[2] = core.shape[i + 1]

OneFactorPerMode == Len(factors) = ndim(core)

ValidTucker ==
    /\ Len(factors) >= 2
    /\ OneFactorPerMode
    /\ \A i \in FactorModes : RankAgrees(i)

\* The lowest mode whose factor disagrees with the core.
LowestMismatch ==
    CHOOSE i \in FactorModes : ~RankAgrees(i) /\ \A j \in 0..(i - 1) : RankAgrees(j)

----------------------------------------------------------------------------
\* Properties of _validate_tucker_tensor.

\* C1: on a valid Tucker tensor (at least two factors, one per mode of the
\* core, each with as many columns as the core's extent on its mode) the
\* validator raises nothing and returns (shape, rank), both of length
\* len(factors), with shape[i] = factors[i].shape[0] and
\* rank[i] = factors[i].shape[1] = core.shape[i], in mode order.
C1_ValidReturnsShapeAndRank ==
    (Validated /\ ValidTucker) =>
        /\ ~IsError(result)
        /\ Len(result.shape) = Len(factors)
        /\ Len(result.rank) = Len(factors)
        /\ \A i \in FactorModes :
             /\ result.shape[i + 1] = factors[i + 1].shape[1]
             /\ result.rank[i + 1] = factors[i + 1].shape[2]
             /\ result.rank[i + 1] = core.shape[i + 1]

\* The fixture of test_tucker_to_tensor is valid: shape (2, 3, 4), rank (3, 4, 2).
C1_Witness ==
    /\ Validated
    /\ ValidTucker
    /\ core = TestCore
    /\ result.shape = <<2, 3, 4>>
    /\ result.rank = <<3, 4, 2>>

\* C2: with at least two factors, one per mode, and some factor whose column
\* count differs from the core's extent, the validator raises a ValueError,
\* returns no (shape, rank), and the error names the lowest mismatching mode
\* with both conflicting dimensions.
C2_RankMismatchRaises ==
    (Validated /\ Len(factors) >= 2 /\ OneFactorPerMode
       /\ \E i \in FactorModes : ~RankAgrees(i)) =>
        /\ IsError(result)
        /\ result.error = "ValueError"
        /\ result.check = "rank"
        /\ "shape" \notin DOMAIN result
        /\ "rank" \notin DOMAIN result
        /\ result.mode = LowestMismatch
        /\ result.factor_dim = factors[LowestMismatch + 1].shape[2]
        /\ result.core_dim = core.shape[LowestMismatch + 1]

\* Two mismatching factors, the first of them at mode 1: mode 1 is reported.
C2_Witness ==
    /\ Validated
    /\ Len(factors) = 3
    /\ OneFactorPerMode
    /\ RankAgrees(0) /\ ~RankAgrees(1) /\ ~RankAgrees(2)
    /\ IsError(result)
    /\ result.mode = 1
    /\ result.factor_dim # result.core_dim

\* C3: with fewer than two factors the validator raises a ValueError,
\* whatever the core, also for a one-mode core whose single factor agrees
\* with it; nothing with fewer than two factors is accepted.
C3_TooFewFactorsRaises ==
    (Validated /\ Len(factors) < 2) =>
        /\ IsError(result)
        /\ result.error = "ValueError"
        /\ result.n_factors = Len(factors)

\* A one-mode core with its one agreeing factor is rejected.
C3_Witness ==
    /\ Validated
    /\ ndim(core) = 1
    /\ Len(factors) = 1
    /\ RankAgrees(0)
    /\ IsError(result)

\* C4: when the number of factors differs from the number of modes of the
\* core the validator raises a ValueError, even if every factor agrees with
\* the core on the modes it can be matched against; a returned (shape, rank)
\* always has core.ndim entries each.
C4_WrongFactorCountRaises ==
    Validated =>
        /\ ~OneFactorPerMode => (IsError(result) /\ result.error = "ValueError")
        /\ (Len(factors) >= 2 /\ ~OneFactorPerMode) =>
              (result.check = "factor count" /\ result.n_modes = ndim(core)
                 /\ result.n_factors = Len(factors))
        /\ ~IsError(result) =>
              (Len(result.shape) = ndim(core) /\ Len(result.rank) = ndim(core))

\* Two factors that agree with the first two modes of a three-mode core.
C4_Witness ==
    /\ Validated
    /\ ndim(core) = 3
    /\ Len(factors) = 2
    /\ RankAgrees(0) /\ RankAgrees(1)
    /\ IsError(result)
    /\ result.check = "factor count"

\* C9: the three checks are applied in a fixed order and only the first
\* failure is reported: too few factors, then the factor count, then the
\* per-mode rank dimensions; no factor's shape is read when the number of
\* factors is wrong, and of several rank mismatches the lowest mode is
\* reported, the factors after it being left unread.
C9_FirstFailingCheckReported ==
    Validated =>
        /\ Len(factors) < 2 =>
              (IsError(result) /\ result.check = "too few factors" /\ result.reads = <<>>)
        /\ (Len(factors) >= 2 /\ ~OneFactorPerMode) =>
              (IsError(result) /\ result.check = "factor count" /\ result.reads = <<>>)
        /\ (Len(factors) >= 2 /\ OneFactorPerMode) =>
              IF \E i \in FactorModes : ~RankAgrees(i)
              THEN /\ IsError(result)
                   /\ result.check = "rank"
                   /\ result.mode = LowestMismatch
                   /\ result.reads = [k \in 1..(LowestMismatch + 1) |-> k - 1]
              ELSE /\ ~IsError(result)
                   /\ result.reads = [k \in 1..Len(factors) |-> k - 1]

\* One factor for a two-mode core, disagreeing with it: all three checks
\* would fail and the first is the one reported.
C9_Witness ==
    /\ Validated
    /\ Len(factors) = 1
    /\ ndim(core) = 2
    /\ ~RankAgrees(0)
    /\ IsError(result)
    /\ result.check = "too few factors"

----------------------------------------------------------------------------
\* Properties of the conversions.

NoSkipNoTranspose == call.skip_factor = None /\ ~call.transpose_factors

\* Mode i is contracted: it has a factor and is not the skipped one.
Contracted(i) == i < Len(factors) /\ (call.skip_factor = None \/ i # call.skip_factor)

\* The dimension of factors[i] that the call contracts with the core, and the
\* one it leaves as the extent of the result.
ContractedDim(i) ==
    IF call.transpose_factors THEN factors[i + 1].shape[1] ELSE factors[i + 1].shape[2]

OutputDim(i) ==
    IF call.transpose_factors THEN factors[i + 1].shape[2] ELSE factors[i + 1].shape[1]

\* The extents the claims give to the reconstructed tensor.
ExpectedShape ==
    [p \in 1..ndim(core) |-> IF Contracted(p - 1) THEN OutputDim(p - 1) ELSE core.shape[p]]

\* The full multilinear product: entry (j_0, ..., j_{n-1}) is the sum over
\* all core indices (r_0, ..., r_{n-1}) of
\* core[r_0, ..., r_{n-1}] * factors[0][j_0, r_0] * ... * factors[n-1][j_{n-1}, r_{n-1}].
MultilinearProduct ==
    MkTensor([p \in 1..Len(factors) |-> factors[p].shape[1]],
             LAMBDA j : Sum([q \in 1..size(core) |->
                 LET r == Unravel(q - 1, core.shape)
                 IN  core.data[q]
                     * Prod([p \in 1..Len(factors) |-> At(factors[p], <<j[p], r[p]>>)])]))

\* C5: without skip and transpose, tucker_to_tensor of a core and one
\* agreeing factor per mode is the full multilinear
\* product of the core by the factors, exactly in integer arithmetic; on the
\* fixture of test_tucker_to_tensor it is the precomputed (2, 3, 4) array.
C5_FullMultilinearProduct ==
    (call.op = "tucker_to_tensor" /\ NoSkipNoTranspose /\ OneFactorPerMode
       /\ \A i \in FactorModes : RankAgrees(i)) =>
        /\ result = MultilinearProduct
        /\ (core = TestCore /\ factors = TestFactors) => result = TestTrueRes

\* The test's fixture is reconstructed: entry [0, 0, 0] is 390.
C5_Witness ==
    /\ call.op = "tucker_to_tensor"
    /\ NoSkipNoTranspose
    /\ core = TestCore
    /\ factors = TestFactors
    /\ result.shape = <<2, 3, 4>>
    /\ At(result, <<0, 0, 0>>) = 390

\* C6: tucker_to_unfolded is the mode-`mode` unfolding of tucker_to_tensor
\* called with the same skip_factor and transpose_factors: it fails exactly
\* when tucker_to_tensor fails, and otherwise has the extent of the
\* reconstructed tensor on `mode` (a dimension of factors[mode] when that mode
\* is contracted) as row count, the product of the other extents as column
\* count, and entry (j_mode, offset of the other coordinates in mode order)
\* equal to the tensor's entry (j_0, ..., j_{n-1}).
C6_UnfoldedIsUnfoldOfTensor ==
    call.op = "tucker_to_unfolded" =>
        LET t == tucker_to_tensor(core, factors, call.skip_factor, call.transpose_factors)
            m == call.mode
        IN  IF IsError(t) THEN IsError(result) /\ result = t
            ELSE /\ ~IsError(result)
                 /\ result.shape = <<t.shape[m + 1], Prod(Remove(t.shape, m + 1))>>
                 /\ Contracted(m) => result.shape[1] = OutputDim(m)
                 /\ \A k \in 1..size(t) :
                      LET idx == Unravel(k - 1, t.shape)
                      IN  At(result, <<idx[m + 1],
                                       Ravel(Remove(idx, m + 1), Remove(t.shape, m + 1))>>)
                          = t.data[k]

\* A middle mode of a three-mode reconstruction is unfolded, with a skipped
\* mode and more than one row and column.
C6_Witness ==
    /\ call.op = "tucker_to_unfolded"
    /\ ndim(core) = 3
    /\ call.mode = 1
    /\ call.skip_factor = 0
    /\ ~IsError(result)
    /\ result.shape[1] > 1
    /\ result.shape[2] > 1

\* C7: tucker_to_vec is the row-major flattening of tucker_to_tensor called
\* with the same arguments, and without skip and transpose it is the product
\* of the Kronecker product of the factors, in mode order, by the flattened
\* core.
C7_VecIsFlattenedTensor ==
    call.op = "tucker_to_vec" =>
        LET t == tucker_to_tensor(core, factors, call.skip_factor, call.transpose_factors)
        IN  IF IsError(t) THEN IsError(result) /\ result = t
            ELSE /\ ~IsError(result)
                 /\ result.shape = <<size(t)>>
                 /\ \A k \in 1..size(t) :
                      At(result, <<k - 1>>) = At(t, Unravel(k - 1, t.shape))
                 /\ (NoSkipNoTranspose /\ OneFactorPerMode) =>
                      result = matvec(kronecker(factors), tensor_to_vec(core))

\* A two-mode reconstruction of more than one entry, one of its factors
\* summing over two entries of the core, is flattened.
C7_Witness ==
    /\ call.op = "tucker_to_vec"
    /\ NoSkipNoTranspose
    /\ OneFactorPerMode
    /\ ~IsError(result)
    /\ \E i, j \in FactorModes :
         i # j /\ factors[i + 1].shape[2] = 2 /\ factors[j + 1].shape[1] = 2
    /\ result.shape = <<size(MultilinearProduct)>>
    /\ result.data = MultilinearProduct.data

\* C8: a tensor returned by tucker_to_tensor has one mode per mode of the
\* core; its extent on mode i is core.shape[i] when i is the skipped mode
\* (or a mode the list holds no factor for), otherwise factors[i].shape[0],
\* or factors[i].shape[1] when transpose_factors is set.
C8_ShapeOfTensor ==
    (call.op = "tucker_to_tensor" /\ ~IsError(result)) =>
        /\ Len(result.shape) = ndim(core)
        /\ result.shape = ExpectedShape
        /\ Len(result.data) = Prod(ExpectedShape)

\* Skip and transpose together: the skipped mode keeps the core's extent,
\* which no dimension of its factor equals, and a contracted mode takes
\* the second dimension of its non-square factor.
C8_Witness ==
    /\ call.op = "tucker_to_tensor"
    /\ Len(factors) >= 2
    /\ OneFactorPerMode
    /\ call.skip_factor = 0
    /\ call.transpose_factors
    /\ ~IsError(result)
    /\ core.shape[1] \notin {factors[1].shape[1], factors[1].shape[2]}
    /\ result.shape[1] = core.shape[1]
    /\ factors[2].shape[1] # factors[2].shape[2]
    /\ result.shape[2] = factors[2].shape[2]

\* The contracted modes of the core whose factor is not aligned with it, and
\* the contracted factors that lie beyond the core's modes.
Misaligned ==
    {i \in FactorModes :
        Contracted(i) /\ i < ndim(core) /\ ContractedDim(i) # core.shape[i + 1]}

BeyondCore == {i \in FactorModes : Contracted(i) /\ i >= ndim(core)}

Lowest(S) == CHOOSE i \in S : \A j \in S : i <= j

\* C10 as stated (for at most one factor per mode of the core): whatever
\* transpose_factors, a conversion raises whenever some contracted mode i has
\* factors[i].shape[1] != core.shape[i], and does not raise when the only
\* such modes are skipped.
C10_AsStated ==
    (Converted /\ Len(factors) <= ndim(core)) =>
        /\ (\E i \in FactorModes : Contracted(i) /\ ~RankAgrees(i)) => IsError(result)
        /\ (\A i \in FactorModes : Contracted(i) => RankAgrees(i)) => ~IsError(result)

\* C10, amended: a conversion raises a dimension-mismatch ValueError exactly
\* when, for some contracted mode i of the core, the dimension of factors[i]
\* that is contracted with the core (factors[i].shape[1], or
\* factors[i].shape[0] when transpose_factors is set) differs from
\* core.shape[i]; the error is that of the lowest such mode. The factor of
\* the skipped mode is never compared. Without such a mode the only failure
\* is the IndexError of a contracted factor beyond the core's modes, and a
\* result has exactly the extents of the factors' other dimension: nothing
\* is padded or truncated.
C10_MisalignedFactorRaises ==
    Converted =>
        IF Misaligned # {}
        THEN /\ IsError(result)
             /\ result.error = "ValueError"
             /\ result.mode = Lowest(Misaligned)
             /\ result.matrix_dim = ContractedDim(Lowest(Misaligned))
             /\ result.tensor_dim = core.shape[Lowest(Misaligned) + 1]
        ELSE IF BeyondCore # {}
        THEN /\ IsError(result)
             /\ result.error = "IndexError"
             /\ result.mode = Lowest(BeyondCore)
        ELSE /\ ~IsError(result)
             /\ Prod(result.shape) = Prod(ExpectedShape)
             /\ Len(result.data) = Prod(ExpectedShape)

\* The skipped mode 0 and mode 1 both disagree with the core: the error is
\* that of mode 1.
C10_Witness ==
    /\ call.op = "tucker_to_tensor"
    /\ Len(factors) >= 2
    /\ OneFactorPerMode
    /\ call.skip_factor = 0
    /\ ~call.transpose_factors
    /\ ~RankAgrees(0)
    /\ ~RankAgrees(1)
    /\ IsError(result)
    /\ result.mode = 1

====
